---- MODULE Spec2Model ----
(***************************************************************************)
(* Model of src-tauri/src/lib.rs: the desktop shell that spawns the Python *)
(* backend in the setup hook, keeps its Child handle in the managed state  *)
(* BackendProcess(Mutex<Option<Child>>), kills it in the CloseRequested    *)
(* window-event handler, and exposes the greet command.                    *)
(*                                                                         *)
(* Each callback is a small program run by a thread; pc[t] is the position *)
(* of thread t.  The setup hook runs on MainThread.  The host framework    *)
(* delivers window events to idle event threads once setup has returned.   *)
(* Writes to stdout/stderr are assumed to succeed (println! does not       *)
(* panic), so the mutex is never poisoned and lock().unwrap() never fails. *)
(* A write is a step of its own: it may be delayed for any time, and the   *)
(* fair specification assumes it is not delayed for ever.                  *)
(***************************************************************************)
EXTENDS Naturals, Integers, Sequences, FiniteSets, TLC

\* ------------------------------------------------------------------ bounds
NumThreads == 2      \* threads on which the framework may run callbacks
MaxPid == 2          \* process identifiers the OS may hand out: 1..MaxPid
MaxEvents == 3       \* window events delivered in one run
MaxGreets == 2       \* greet invocations in one run

\* ----------------------------------------------------------------- values
None == 0            \* Option::None; Some(child) is the child's pid
MainThread == 1
Threads == 1..NumThreads
Pids == 1..MaxPid
NoHolder == 0        \* the mutex is free

Names == {"", "Ann", "{}"}
EventKinds == {"CloseRequested", "Focused", "Destroyed"}

VARIABLES
  phase,          \* "setup" | "running" | "aborted"
  pc,             \* pc[t]: position of thread t
  lock,           \* holder of the Mutex in BackendProcess, or NoHolder
  slot,           \* the Option<Child> inside the Mutex
  backend,        \* local `backend` of the setup hook
  result,         \* local `result` of spawn_backend: <<>> or <<r>>
  child,          \* child[t]: local `child` of the close handler on t
  procs,          \* procs[p]: OS state of process p
  spawnCount,     \* number of Command::spawn calls made
  kills,          \* kill() calls made, in order: [pid, ok]
  out,            \* diagnostics written, in order
  takeLog,        \* values returned by Option::take, in order
  events,         \* window events delivered so far
  closeRequests,  \* how many of them were CloseRequested events
  closesReturned, \* close-requested handlers that have returned
  closed,         \* close requests the handler let proceed
  greetLog        \* greet invocations, in order: [name, result]

vars == <<phase, pc, lock, slot, backend, result, child, procs, spawnCount,
          kills, out, takeLog, events, closeRequests, closesReturned, closed,
          greetLog>>

supervisorVars == <<phase, pc, lock, slot, backend, result, child, procs,
                    spawnCount, kills, out, takeLog, events, closeRequests,
                    closesReturned, closed>>

\* ------------------------------------------------------------ greet (7-10)
\* Faulty variant: the "!" after the name is missing.
greetDroppedBang(name) == "Hello, " \o name \o " Welcome to Lazy Learn."

greet(name) == "Hello, " \o name \o "! Welcome to Lazy Learn."

\* ---------------------------------------------------- spawn_backend (12-31)
\* The outcomes Command::spawn can have: Ok(child) with a fresh pid, or Err.
SpawnResults ==
  {[ok |-> TRUE, pid |-> p] : p \in {q \in Pids : procs[q] = "none"}}
    \cup {[ok |-> FALSE, pid |-> None]}

StartedMsg(p) ==
  [stream |-> "stdout", text |-> "Backend started with PID: " \o ToString(p)]

FailedMsg ==
  [stream |-> "stderr",
   text |-> "Failed to start backend: {e}. Frontend will connect when backend is manually started."]

TerminatedMsg ==
  [stream |-> "stdout", text |-> "Backend process terminated."]

\* Faulty variant: the warning is written whatever the spawn result was.
spawn_backendWarnsAlways(res) ==
  [ret |-> IF res.ok THEN res.pid ELSE None,
   diag |-> FailedMsg]

\* match result { Ok(child) => { println!; Some(child) }  Err(e) => { eprintln!; None } }
spawn_backend(res) ==
  [ret |-> IF res.ok THEN res.pid ELSE None,
   diag |-> IF res.ok THEN StartedMsg(res.pid) ELSE FailedMsg]

\* ------------------------------------------------------- setup hook (38-44)
\* Faulty variant: the hook returns first and the store is done afterwards.
SetupNextDeferredStore(p) ==
  CASE p = "spawn" -> "return"
    [] p = "return" -> "setup_lock"
    [] p = "setup_lock" -> "store"
    [] p = "store" -> "setup_unlock"
    [] p = "setup_unlock" -> "idle"

\* Faulty variant: the lock is taken before spawn_backend is called.
SetupProgramLockFirst ==
  <<"setup_lock", "spawn", "store", "setup_unlock", "return">>

\* The statements of the hook in program order: spawn_backend(), lock(),
\* the assignment, the drop of the guard, Ok(()).
SetupProgram == <<"spawn", "setup_lock", "store", "setup_unlock", "return">>

\* The statement after p; after the last one the thread is idle again.
SetupNext(p) ==
  LET i == CHOOSE k \in 1..Len(SetupProgram) : SetupProgram[k] = p
  IN  IF i < Len(SetupProgram) THEN SetupProgram[i + 1] ELSE "idle"

\* Faulty variant: the hook reports an error when there is no backend.
SetupResultErrWithoutBackend(stored) == IF stored = None THEN "Err" ELSE "Ok"

\* The hook ends in Ok(()) whatever spawn_backend returned.
SetupResult(stored) == "Ok"

\* *guard = backend: the slot's content is replaced by the new value.
StoreValue(old, new) == new

\* ------------------------------------------------- close handler (45-54)
\* Faulty variant: the handler body runs for every kind of window event.
IsCloseRequestedAny(ev) == TRUE

\* if let tauri::WindowEvent::CloseRequested { .. } = event
IsCloseRequested(ev) == ev = "CloseRequested"

\* Faulty variant: the content is copied out and left in place.
TakeOptionClone(opt) == [taken |-> opt, rest |-> opt]

\* Option::take: returns the content and leaves None behind.
TakeOption(opt) == [taken |-> opt, rest |-> None]

\* Faulty variant: the body runs whatever take() returned.
HasHandleAlways(opt) == TRUE

\* if let Some(mut child) = ...
HasHandle(opt) == opt # None

\* Faulty variant: the signal goes to another process.
KillTargetOther(c) == IF c = MaxPid THEN 1 ELSE c + 1

\* child.kill() signals the process the handle refers to.
KillTarget(c) == c

\* Faulty variant: a failed kill is tried again.
AfterKillRetry(ok) == IF ok THEN "print" ELSE "kill"

\* let _ = child.kill(): the result is discarded, the println! follows.
AfterKill(ok) == "print"

\* Faulty variant: lock() returns although another thread holds the mutex.
CanAcquireAlways(holder) == TRUE

\* Mutex::lock returns only when no thread holds the mutex.
CanAcquire(holder) == holder = NoHolder

\* Faulty variant: the guard is leaked and the mutex stays locked.
LockAfterReleaseLeaked(t) == t

\* The MutexGuard temporary is dropped at the end of the statement.
LockAfterRelease(t) == NoHolder

\* The handler ignores the CloseRequested api and never calls prevent_close.
PreventsClose(found) == FALSE

\* -------------------------------------------------------------------- Init
\* Faulty variant: a backend is already spawned and put in the slot when the
\* state is registered, before the setup hook spawns and stores its own.
InitSpawnedInManage ==
  /\ phase = "setup"
  /\ pc = [t \in Threads |-> IF t = MainThread THEN SetupProgram[1] ELSE "idle"]
  /\ lock = NoHolder
  /\ slot = 1
  /\ backend = None
  /\ result = <<>>
  /\ child = [t \in Threads |-> None]
  /\ procs = [p \in Pids |-> IF p = 1 THEN "running" ELSE "none"]
  /\ spawnCount = 0
  /\ kills = <<>>
  /\ out = <<>>
  /\ takeLog = <<>>
  /\ events = 0
  /\ closeRequests = 0
  /\ closesReturned = 0
  /\ closed = 0
  /\ greetLog = <<>>

\* .manage(BackendProcess(Mutex::new(None))), before the event loop starts.
Init ==
  /\ phase = "setup"
  /\ pc = [t \in Threads |-> IF t = MainThread THEN SetupProgram[1] ELSE "idle"]
  /\ lock = NoHolder
  /\ slot = None
  /\ backend = None
  /\ result = <<>>
  /\ child = [t \in Threads |-> None]
  /\ procs = [p \in Pids |-> "none"]
  /\ spawnCount = 0
  /\ kills = <<>>
  /\ out = <<>>
  /\ takeLog = <<>>
  /\ events = 0
  /\ closeRequests = 0
  /\ closesReturned = 0
  /\ closed = 0
  /\ greetLog = <<>>

\* ----------------------------------------------------------------- actions
\* Command::new("python")...spawn(): the OS creates the process or refuses.
Spawn(t) ==
  /\ t = MainThread /\ phase = "setup" /\ pc[t] = "spawn"
  /\ \E res \in SpawnResults :
       /\ result' = <<res>>
       /\ procs' = IF res.ok
                     THEN [procs EXCEPT ![res.pid] = "running"]
                     ELSE procs
  /\ spawnCount' = spawnCount + 1
  /\ pc' = [pc EXCEPT ![t] = "report"]
  /\ UNCHANGED <<phase, lock, slot, backend, child, kills, out, takeLog,
                 events, closeRequests, closesReturned, closed, greetLog>>

\* match result {..}: the diagnostic is written, spawn_backend returns and
\* its value becomes the local `backend` of the hook.
SpawnReport(t) ==
  /\ t = MainThread /\ pc[t] = "report"
  /\ LET r == spawn_backend(result[1]) IN
       /\ backend' = r.ret
       /\ out' = Append(out, r.diag)
  /\ result' = <<>>
  /\ pc' = [pc EXCEPT ![t] = SetupNext("spawn")]
  /\ UNCHANGED <<phase, lock, slot, child, procs, spawnCount, kills, takeLog,
                 events, closeRequests, closesReturned, closed, greetLog>>

\* state.0.lock().unwrap() in the setup hook
SetupLock(t) ==
  /\ t = MainThread /\ pc[t] = "setup_lock"
  /\ CanAcquire(lock)
  /\ lock' = t
  /\ pc' = [pc EXCEPT ![t] = SetupNext("setup_lock")]
  /\ UNCHANGED <<phase, slot, backend, result, child, procs, spawnCount,
                 kills, out, takeLog, events, closeRequests, closesReturned,
                 closed, greetLog>>

\* *guard = backend;  (backend is moved into the slot)
Store(t) ==
  /\ t = MainThread /\ pc[t] = "store"
  /\ lock = t
  /\ slot' = StoreValue(slot, backend)
  /\ backend' = None
  /\ pc' = [pc EXCEPT ![t] = SetupNext("store")]
  /\ UNCHANGED <<phase, lock, result, child, procs, spawnCount, kills, out,
                 takeLog, events, closeRequests, closesReturned, closed,
                 greetLog>>

\* end of the assignment statement: the guard is dropped
SetupUnlock(t) ==
  /\ t = MainThread /\ pc[t] = "setup_unlock"
  /\ lock = t
  /\ lock' = LockAfterRelease(t)
  /\ pc' = [pc EXCEPT ![t] = SetupNext("setup_unlock")]
  /\ UNCHANGED <<phase, slot, backend, result, child, procs, spawnCount,
                 kills, out, takeLog, events, closeRequests, closesReturned,
                 closed, greetLog>>

\* Ok(()) : the hook returns; an Err would make run() panic in expect().
SetupReturn(t) ==
  /\ t = MainThread /\ phase = "setup" /\ pc[t] = "return"
  /\ phase' = IF SetupResult(slot) = "Ok" THEN "running" ELSE "aborted"
  /\ pc' = [pc EXCEPT ![t] = SetupNext("return")]
  /\ UNCHANGED <<lock, slot, backend, result, child, procs, spawnCount, kills,
                 out, takeLog, events, closeRequests, closesReturned, closed,
                 greetLog>>

\* The framework calls the on_window_event closure with event ev on thread t.
WindowEvent(t, ev) ==
  /\ phase = "running" /\ pc[t] = "idle"
  /\ events < MaxEvents
  /\ events' = events + 1
  /\ closeRequests' = IF ev = "CloseRequested" THEN closeRequests + 1
                                               ELSE closeRequests
  /\ pc' = [pc EXCEPT ![t] = IF IsCloseRequested(ev) THEN "lock" ELSE "idle"]
  /\ UNCHANGED <<phase, lock, slot, backend, result, child, procs, spawnCount,
                 kills, out, takeLog, closesReturned, closed, greetLog>>

\* state.0.lock().unwrap() in the close handler
CloseLock(t) ==
  /\ pc[t] = "lock"
  /\ CanAcquire(lock)
  /\ lock' = t
  /\ pc' = [pc EXCEPT ![t] = "take"]
  /\ UNCHANGED <<phase, slot, backend, result, child, procs, spawnCount,
                 kills, out, takeLog, events, closeRequests, closesReturned,
                 closed, greetLog>>

\* if let Some(mut child) = guard.take()
Take(t) ==
  /\ pc[t] = "take"
  /\ lock = t
  /\ LET r == TakeOption(slot) IN
       /\ slot' = r.rest
       /\ child' = [child EXCEPT ![t] = r.taken]
       /\ takeLog' = Append(takeLog, r.taken)
       /\ pc' = [pc EXCEPT ![t] = IF HasHandle(r.taken) THEN "kill" ELSE "unlock"]
  /\ UNCHANGED <<phase, lock, backend, result, procs, spawnCount, kills, out,
                 events, closeRequests, closesReturned, closed, greetLog>>

\* let _ = child.kill();  the OS decides whether the signal is delivered
Kill(t) ==
  /\ pc[t] = "kill"
  /\ \E ok \in BOOLEAN :
       LET target == KillTarget(child[t]) IN
         /\ kills' = Append(kills, [pid |-> target, ok |-> ok])
         /\ procs' = IF ok /\ target \in Pids /\ procs[target] = "running"
                       THEN [procs EXCEPT ![target] = "killed"]
                       ELSE procs
         /\ pc' = [pc EXCEPT ![t] = AfterKill(ok)]
  /\ UNCHANGED <<phase, lock, slot, backend, result, child, spawnCount, out,
                 takeLog, events, closeRequests, closesReturned, closed,
                 greetLog>>

\* println!("Backend process terminated.");
PrintTerminated(t) ==
  /\ pc[t] = "print"
  /\ out' = Append(out, TerminatedMsg)
  /\ pc' = [pc EXCEPT ![t] = "unlock"]
  /\ UNCHANGED <<phase, lock, slot, backend, result, child, procs, spawnCount,
                 kills, takeLog, events, closeRequests, closesReturned,
                 closed, greetLog>>

\* end of the if-let statement: child and the guard are dropped, the handler
\* returns and the window close goes on unless the handler prevented it.
CloseUnlock(t) ==
  /\ pc[t] = "unlock"
  /\ lock = t
  /\ lock' = LockAfterRelease(t)
  /\ closed' = IF PreventsClose(child[t]) THEN closed ELSE closed + 1
  /\ child' = [child EXCEPT ![t] = None]
  /\ closesReturned' = closesReturned + 1
  /\ pc' = [pc EXCEPT ![t] = "idle"]
  /\ UNCHANGED <<phase, slot, backend, result, procs, spawnCount, kills, out,
                 takeLog, events, closeRequests, greetLog>>

\* The backend process ends on its own (crash, exit); the handle is unaffected.
BackendExits(p) ==
  /\ procs[p] = "running"
  /\ procs' = [procs EXCEPT ![p] = "exited"]
  /\ UNCHANGED <<phase, pc, lock, slot, backend, result, child, spawnCount,
                 kills, out, takeLog, events, closeRequests, closesReturned,
                 closed, greetLog>>

\* The frontend invokes the greet command.
Greet(name) ==
  /\ phase # "aborted"
  /\ Len(greetLog) < MaxGreets
  /\ greetLog' = Append(greetLog, [name |-> name, result |-> greet(name)])
  /\ UNCHANGED supervisorVars

Next ==
  \/ \E t \in Threads : Spawn(t)
  \/ \E t \in Threads : SpawnReport(t)
  \/ \E t \in Threads : SetupLock(t)
  \/ \E t \in Threads : Store(t)
  \/ \E t \in Threads : SetupUnlock(t)
  \/ \E t \in Threads : SetupReturn(t)
  \/ \E t \in Threads, ev \in EventKinds : WindowEvent(t, ev)
  \/ \E t \in Threads : CloseLock(t)
  \/ \E t \in Threads : Take(t)
  \/ \E t \in Threads : Kill(t)
  \/ \E t \in Threads : PrintTerminated(t)
  \/ \E t \in Threads : CloseUnlock(t)
  \/ \E p \in Pids : BackendExits(p)
  \/ \E name \in Names : Greet(name)

Spec == Init /\ [][Next]_vars

\* A window event that reaches the closure while the setup hook is still
\* running on MainThread: the case the lock is there for.  The framework
\* does not deliver such events (Spec); ConcSpec allows them.
EarlyWindowEvent(t, ev) ==
  /\ phase = "setup" /\ pc[t] = "idle"
  /\ events < MaxEvents
  /\ events' = events + 1
  /\ closeRequests' = IF ev = "CloseRequested" THEN closeRequests + 1
                                               ELSE closeRequests
  /\ pc' = [pc EXCEPT ![t] = IF IsCloseRequested(ev) THEN "lock" ELSE "idle"]
  /\ UNCHANGED <<phase, lock, slot, backend, result, child, procs, spawnCount,
                 kills, out, takeLog, closesReturned, closed, greetLog>>

ConcNext ==
  \/ Next
  \/ \E t \in Threads, ev \in EventKinds : EarlyWindowEvent(t, ev)

ConcSpec == Init /\ [][ConcNext]_vars

\* Every thread that can take a step eventually takes it.
ThreadStep(t) ==
  \/ Spawn(t) \/ SpawnReport(t) \/ SetupLock(t) \/ Store(t) \/ SetupUnlock(t) \/ SetupReturn(t)
  \/ CloseLock(t) \/ Take(t) \/ Kill(t) \/ PrintTerminated(t) \/ CloseUnlock(t)

FairSpec == Spec /\ \A t \in Threads : WF_vars(ThreadStep(t))

\* --------------------------------------------------------- derived notions
SpawnedPids == {p \in Pids : procs[p] # "none"}

SpawnFailed == spawnCount = 1 /\ SpawnedPids = {}

HandleTakes == {i \in 1..Len(takeLog) : takeLog[i] # None}

HandlesHeld ==
  Cardinality({t \in Threads : child[t] # None})
    + (IF slot # None THEN 1 ELSE 0)
    + (IF backend # None THEN 1 ELSE 0)
    + (IF result # <<>> /\ result[1].ok THEN 1 ELSE 0)

SetupPcs ==
  {"spawn", "report", "setup_lock", "store", "setup_unlock", "return"}

InTermination(t) == pc[t] \in {"lock", "take", "kill", "print", "unlock"}

\* ------------------------------------------------------------------ claims

\* C1: once setup has stored a handle, however many close-requested events
\* follow, there is exactly one kill attempt in total: the first take returns
\* the handle, every later take returns None and its handler does nothing.
C1_IdempotentTermination ==
  /\ Len(kills) <= 1
  /\ \A i \in 2..Len(takeLog) : takeLog[i] = None
  /\ (SpawnedPids # {} /\ takeLog # <<>>) => takeLog[1] # None
  /\ (SpawnedPids # {} /\ closesReturned >= 1) => Len(kills) = 1

C1_Witness ==
  SpawnedPids # {} /\ closesReturned >= 2 /\ Len(kills) = 1

\* C2: when spawn_backend succeeds with process P, the slot holds P's handle
\* after setup until the first take, every kill signal goes to P and to no
\* other process, and the slot is empty once a close handler has returned.
C2_LaunchThenClose ==
  \A p \in SpawnedPids :
    /\ (phase = "running" /\ takeLog = <<>>) => slot = p
    /\ \A t \in Threads : pc[t] \in {"kill", "print"} => child[t] = p
    /\ \A i \in 1..Len(kills) : kills[i].pid = p
    /\ closesReturned >= 1 => (slot = None /\ kills # <<>> /\ kills[1].pid = p)

C2_Witness ==
  /\ closesReturned >= 1
  /\ kills # <<>>
  /\ kills[1].pid = MaxPid
  /\ procs[MaxPid] = "killed"

\* C3: when the OS spawn fails, spawn_backend returns None, setup stores None
\* and returns Ok, the application is running once setup has returned, the
\* slot stays empty and no kill attempt is ever made.
C3_LaunchFailureNonFatal ==
  SpawnFailed =>
    /\ backend = None
    /\ slot = None
    /\ \A t \in Threads : child[t] = None
    /\ kills = <<>>
    /\ out = IF pc[MainThread] = "report" THEN <<>> ELSE <<FailedMsg>>
    /\ phase # "aborted"
    /\ pc[MainThread] \notin SetupPcs => phase = "running"

C3_Witness ==
  SpawnFailed /\ phase = "running" /\ closesReturned >= 1

\* C4: a close handler whose take finds the slot empty goes straight to its
\* end: it sends no kill signal, writes no diagnostic, and the slot is empty
\* while it finishes and after it has returned.
C4_EmptyTakeStep ==
  \A t \in Threads :
    /\ (pc[t] = "take" /\ slot = None /\ pc'[t] # "take") =>
         /\ pc'[t] = "unlock"
         /\ child'[t] = None
         /\ slot' = None
         /\ kills' = kills
         /\ out' = out
    /\ (pc[t] = "unlock" /\ child[t] = None /\ pc'[t] # "unlock") =>
         /\ pc'[t] = "idle"
         /\ slot' = None
         /\ kills' = kills
         /\ out' = out
         /\ closesReturned' = closesReturned + 1

C4_NoHandleNoKill ==
  /\ [](\A t \in Threads : (pc[t] = "unlock" /\ child[t] = None) => slot = None)
  /\ [][C4_EmptyTakeStep]_vars

C4_Witness ==
  /\ takeLog # <<>>
  /\ takeLog[Len(takeLog)] = None
  /\ closesReturned = Len(takeLog)
  /\ kills = <<>>

\* C5: the slot is empty or holds one handle, that handle belongs to the one
\* process this run spawned, and at most one handle exists at a time over the
\* slot and the locals of the callbacks.
C5_StateExclusivity ==
  /\ slot \in {None} \cup Pids
  /\ slot # None => slot \in SpawnedPids
  /\ HandlesHeld <= 1
  /\ Cardinality(SpawnedPids) <= 1

C5_Witness ==
  slot # None /\ phase = "running" /\ events >= 1 /\ greetLog # <<>>

\* C6: a kill that fails is not retried and stops nothing: it is the only
\* kill attempt of the run, its handler goes on to its end, the slot is
\* empty, the handle is dropped when the handler returns, and the
\* application keeps running.
C6_FailedKillIgnored ==
  \A i \in 1..Len(kills) :
    ~kills[i].ok =>
      /\ Len(kills) = 1
      /\ slot = None
      /\ phase = "running"
      /\ \A t \in Threads : pc[t] # "kill"
      /\ \A t \in Threads : pc[t] \in {"idle", "lock", "take"} => child[t] = None
      /\ closesReturned >= 1 => HandlesHeld = 0

C6_Witness ==
  kills # <<>> /\ ~kills[1].ok /\ closesReturned >= 2

\* C7: whenever a close handler is anywhere between acquiring the lock and
\* returning, or a take or kill has happened, the setup hook has made its
\* launch attempt and finished storing the result.
C7_LaunchBeforeTermination ==
  ((\E t \in Threads : InTermination(t)) \/ takeLog # <<>> \/ kills # <<>>
     \/ events > 0) =>
    /\ spawnCount = 1
    /\ pc[MainThread] \notin SetupPcs
    /\ backend = None

C7_Witness ==
  \E t \in Threads : pc[t] = "kill" /\ t # MainThread

\* C8: the backend is spawned at most once, a handle leaves the slot at most
\* once (exactly once when a launch succeeded and a close handler returned),
\* a slot emptied by a close stays empty, and a process that has ended is
\* never running again.
C8_Once ==
  /\ spawnCount <= 1
  /\ Cardinality(HandleTakes) <= 1
  /\ (SpawnedPids # {} /\ closesReturned >= 1) => Cardinality(HandleTakes) = 1

C8_StaysEmpty ==
  /\ (takeLog # <<>> /\ slot = None) => slot' = None
  /\ spawnCount >= 1 => spawnCount' = spawnCount
  /\ \A p \in Pids : procs[p] \in {"killed", "exited"} => procs'[p] # "running"

C8_NoRestart == []C8_Once /\ [][C8_StaysEmpty]_vars

C8_Witness ==
  /\ HandleTakes # {}
  /\ closesReturned >= 2
  /\ slot = None
  /\ events = MaxEvents

\* C9: every close handler that starts returns with the lock released,
\* whatever it finds in the slot and whatever the kill outcome, and every
\* close request whose handler returned was let through.
C9_CloseHandlerCompletes ==
  /\ \A t \in Threads : (pc[t] = "lock") ~> (pc[t] = "idle" /\ lock # t)
  /\ [](closed = closesReturned)
  /\ [](\A t \in Threads : lock = t => pc[t] \notin {"idle", "lock"})

C9_Witness ==
  /\ closed >= 2
  /\ Len(takeLog) >= 2
  /\ takeLog[1] # None
  /\ kills # <<>>
  /\ ~kills[1].ok
  /\ lock = NoHolder

\* C10: greet returns "Hello, " + s + "! Welcome to Lazy Learn." for every
\* input s, two calls with the same input return the same string, and a
\* greet call changes nothing of the supervisor's state.
ExpectedGreeting(n) ==
  CASE n = "" -> "Hello, ! Welcome to Lazy Learn."
    [] n = "Ann" -> "Hello, Ann! Welcome to Lazy Learn."
    [] n = "{}" -> "Hello, {}! Welcome to Lazy Learn."

C10_GreetResults ==
  /\ \A i \in 1..Len(greetLog) :
       /\ greetLog[i].result = ExpectedGreeting(greetLog[i].name)
       /\ Len(greetLog[i].result) = Len(greetLog[i].name) + 31
  /\ \A i, j \in 1..Len(greetLog) :
       greetLog[i].name = greetLog[j].name =>
         greetLog[i].result = greetLog[j].result

C10_GreetPurity ==
  /\ []C10_GreetResults
  /\ [][greetLog' # greetLog => UNCHANGED supervisorVars]_vars

C10_Witness ==
  /\ Len(greetLog) = 2
  /\ greetLog[1].name = greetLog[2].name
  /\ greetLog[1].name = "{}"
  /\ slot # None

\* C11: the lock is held only while the slot is read or written: a close
\* handler that is sending the kill signal or writing the termination
\* diagnostic no longer holds it, and setup holds it only around the write.
C11_LockOnlyDuringAccess ==
  \A t \in Threads :
    /\ pc[t] \in {"kill", "print"} => lock # t
    /\ lock = t => pc[t] \in {"take", "store", "setup_unlock", "unlock"}

\* C12: the lock is never held while spawn_backend runs: nobody holds it
\* while setup is at the spawn call or at its diagnostic, and whenever setup holds it the spawn
\* attempt has already returned.
C12_NoLockAcrossSpawn ==
  /\ pc[MainThread] = "spawn" => (lock = NoHolder /\ spawnCount = 0)
  /\ pc[MainThread] = "report" => (lock = NoHolder /\ result # <<>>)
  /\ (lock = MainThread /\ pc[MainThread] \in SetupPcs) =>
       (spawnCount = 1 /\ pc[MainThread] \in {"store", "setup_unlock"})

C12_Witness ==
  /\ pc[MainThread] = "store"
  /\ lock = MainThread
  /\ spawnCount = 1
  /\ backend # None

\* C13: with close handlers running while setup stores its result, the store
\* and a take are never inside their critical sections together, and once all
\* callbacks have returned the slot and the kill attempts are those of a
\* serial order: store then take (slot empty, one kill of the spawned
\* process) or take then store (the handle in the slot, no kill).
InStoreSection == pc[MainThread] \in {"store", "setup_unlock"}

InTakeSection(t) == pc[t] \in {"take", "kill", "print", "unlock"}

Quiescent == \A t \in Threads : pc[t] = "idle"

C13_StoreTakeSerial ==
  /\ Cardinality({t \in Threads : InTakeSection(t)})
       + (IF InStoreSection THEN 1 ELSE 0) <= 1
  /\ \A t \in Threads : (InTakeSection(t) \/ (t = MainThread /\ InStoreSection))
                          => lock = t
  /\ Quiescent =>
       /\ SpawnedPids = {} => (slot = None /\ kills = <<>>)
       /\ \A p \in SpawnedPids :
            \/ /\ slot = None
               /\ Len(kills) = 1 /\ kills[1].pid = p
               /\ Cardinality(HandleTakes) = 1
            \/ /\ slot = p
               /\ kills = <<>>
               /\ HandleTakes = {}

C13_Witness ==
  /\ pc[MainThread] = "store"
  /\ backend # None
  /\ \E t \in Threads : pc[t] = "lock"
  /\ takeLog # <<>>

\* C14: with close handlers running at the same time on different threads
\* after a successful launch, one handler at a time is past the lock, exactly
\* one take returns the handle, only the handler that got it sends a kill
\* signal (one at most), and a handler that got None goes to its end.
C14_ConcurrentCloses ==
  /\ Cardinality({t \in Threads : InTakeSection(t)}) <= 1
  /\ Cardinality({t \in Threads : child[t] # None}) <= 1
  /\ \A t \in Threads :
       /\ pc[t] \in {"kill", "print"} => child[t] # None
       /\ child[t] # None => pc[t] \in {"kill", "print", "unlock"}
  /\ Len(kills) + Cardinality({t \in Threads : pc[t] = "kill"})
       = Cardinality(HandleTakes)
  /\ Len(kills) <= 1
  /\ (SpawnedPids # {} /\ takeLog # <<>>) => HandleTakes = {1}

C14_Witness ==
  \E a, b \in Threads :
    /\ a # b
    /\ pc[a] = "print" /\ child[a] # None
    /\ pc[b] = "lock"
    /\ Len(kills) = 1
    /\ closesReturned = 0

\* C15: the slot is empty from its creation until setup writes the launch
\* result, so the store overwrites no handle; a handle leaves the slot only
\* into a close handler, and every spawned process either still has its
\* handle held somewhere or has had a kill attempt.
HandleHeld(p) ==
  \/ result # <<>> /\ result[1].pid = p
  \/ backend = p \/ slot = p \/ \E t \in Threads : child[t] = p

C15_SlotEmptyBeforeStore ==
  /\ pc[MainThread] \in {"spawn", "report", "setup_lock", "store"} =>
       slot = None
  /\ \A p \in SpawnedPids :
       HandleHeld(p) \/ \E i \in 1..Len(kills) : kills[i].pid = p

C15_HandleLeavesByTake ==
  /\ (pc[MainThread] = "store" /\ pc'[MainThread] # "store") =>
       (slot = None /\ slot' = backend)
  /\ (slot # None /\ slot' # slot) =>
       \E t \in Threads : pc[t] = "take" /\ child'[t] = slot /\ pc'[t] = "kill"

C15_StoreOverwritesNothing ==
  []C15_SlotEmptyBeforeStore /\ [][C15_HandleLeavesByTake]_vars

C15_Witness ==
  /\ pc[MainThread] = "setup_unlock"
  /\ slot # None
  /\ backend = None

\* C16: only close-requested events start a termination: a window event of
\* another kind changes nothing but the event count (no thread moves, the
\* lock, the slot, the kills and the diagnostics stay as they were), and the
\* handlers that are running or have returned are as many as the
\* close-requested events delivered.
C16_HandlersAreCloseRequests ==
  /\ Cardinality({t \in Threads : InTermination(t)}) + closesReturned
       = closeRequests
  /\ Len(takeLog) <= closeRequests
  /\ Len(kills) <= closeRequests

C16_OtherEventStep ==
  (events' # events /\ closeRequests' = closeRequests) =>
    UNCHANGED <<phase, pc, lock, slot, backend, result, child, procs,
                spawnCount, kills, out, takeLog, closesReturned, closed>>

C16_OnlyCloseTerminates ==
  []C16_HandlersAreCloseRequests /\ [][C16_OtherEventStep]_vars

C16_Witness ==
  /\ events = MaxEvents
  /\ closeRequests = 0
  /\ slot # None
  /\ lock = NoHolder
  /\ kills = <<>>

\* C17: the launch attempt has written exactly one diagnostic once
\* spawn_backend has returned (none while the write is still to come), the
\* PID message on stdout if the spawn succeeded and the warning on stderr
\* otherwise; the
\* termination message is written at most once, once for the handler that
\* took a handle, after its kill attempt whether that succeeded or failed.
TerminationDiags == {i \in 1..Len(out) : out[i] = TerminatedMsg}

LaunchDiags == {i \in 1..Len(out) : out[i] # TerminatedMsg}

PidText(p) == CASE p = 1 -> "1" [] p = 2 -> "2" [] p = 3 -> "3" [] OTHER -> "?"

C17_DiagnosticsFollowLifecycle ==
  /\ Cardinality(LaunchDiags)
       + (IF pc[MainThread] = "report" THEN 1 ELSE 0) = spawnCount
  /\ (spawnCount = 1 /\ pc[MainThread] # "report") =>
       /\ LaunchDiags = {1}
       /\ SpawnedPids = {} =>
            (out[1].stream = "stderr" /\ out[1] = FailedMsg)
       /\ \A p \in SpawnedPids :
            /\ out[1].stream = "stdout"
            /\ out[1].text = "Backend started with PID: " \o PidText(p)
  /\ Cardinality(TerminationDiags) <= 1
  /\ Cardinality(TerminationDiags)
       + Cardinality({t \in Threads : pc[t] \in {"kill", "print"}})
       = Cardinality(HandleTakes)
  /\ Cardinality(TerminationDiags)
       + Cardinality({t \in Threads : pc[t] = "print"})
       = Len(kills)

C17_Witness ==
  /\ Len(out) = 2
  /\ out[1].text = "Backend started with PID: 2"
  /\ out[2] = TerminatedMsg
  /\ kills # <<>>
  /\ ~kills[1].ok
  /\ closesReturned >= 2

====
